---- MODULE Spec2Model ----
(***************************************************************************)
(* Provisioning orchestrator of scripts/provision (core.py, models.py).   *)
(*                                                                         *)
(* One run of ProvisioningSystem is modelled: the entry point             *)
(* (provision_from_url or provision_from_file), the loop that builds one  *)
(* download task per manifest entry, the asyncio.gather of the tasks, the *)
(* semaphore of _execute_concurrent_downloads and the value handed back   *)
(* to the caller.  A second specification, SpecExec, runs                 *)
(* _execute_concurrent_downloads alone on an arbitrary list of awaitables.*)
(***************************************************************************)
EXTENDS Integers, Sequences, FiniteSets, TLC

\* ---------------------------------------------------------------- bounds
MaxModels == 3          \* longest manifest explored
MaxConcurrent == 2      \* largest max_concurrent explored
MaxChunks == 2          \* most chunks of a response body explored
MaxFetches == 3         \* most GET requests of one _download_file explored
MaxTasks == 2           \* download tasks that resolve to one target path

VARIABLES
    entryPoint,       \* "url" (provision_from_url), "file" (provision_from_file), "exec"
    dry_run,          \* ProvisioningSystem.dry_run
    max_concurrent,   \* ProvisioningSystem.max_concurrent
    manifest,         \* the model entries of the manifest, in iteration order
    pc,               \* position of the orchestrator coroutine
    idx,              \* next manifest entry the build loop looks at
    model_configs,    \* _download_models_typed: model_configs (entry numbers)
    download_tasks,   \* the awaitables collected for asyncio.gather
    tstate,           \* per task: "pending", "holding", "running", "done"
    results,          \* per task: what gather recorded for it
    semaphore,        \* value of self._semaphore (free slots)
    inflight,         \* manifest entries whose adapter download() is executing
    adapterCalls,     \* per manifest entry: number of adapter download() calls
    processed,        \* _execute_concurrent_downloads: processed_results
    ret,              \* what the entry point handed to its caller
    hf_token,         \* TokenValidator.hf_token is set (HF_TOKEN in the environment)
    civitai_token,    \* TokenValidator.civitai_token is set (CIVITAI_TOKEN)
    validated,        \* platforms whose validate_*_token was called
    probes,           \* platforms whose token was sent in a GET
    deniedLog,        \* per manifest entry: calls of _log_gated_model_error
    fsWrites,         \* directories and files created so far
    a_kind,           \* adapter whose download() is running: its source kind
    a_in,             \* the arguments and the environment of that call
    a_pc,             \* position inside download()
    a_file,           \* the file at the resolved target path
    a_net,            \* network requests the call has made, in order
    a_ret,            \* what download() returned
    a_name,           \* how the target file name of that call was resolved
    a_auth,           \* the Authorization header of the call's last GET
    a_resp,           \* the response to that GET: what it is, chunks of its body
    s_pc,             \* position of each task that shares one target path
    s_chunks,         \* chunks each of those tasks has written
    s_ret,            \* what each of those tasks has returned
    s_file,           \* the file at the shared target path
    parsed,           \* outcome of fetching, parsing and validating the manifest
    exit_code,        \* the code cli.main passed to sys.exit
    i_entry,          \* a structured entry whose source kind is being inferred
    i_parser,         \* ConfigParser._detect_source of it
    i_pydantic,       \* ModelConfigPydantic.validate_source of it
    i_orch,           \* ProvisioningSystem._detect_source of it
    v_pc,             \* per platform: position of validate_<platform>_token
    v_net,            \* per platform: GET requests the validate call has sent
    v_resp,           \* per platform: the response to its GET
    v_ret             \* per platform: what the validate call returned

\* State of the token pre-flight.
tokenVars == <<hf_token, civitai_token, validated, probes, deniedLog>>

\* State of one adapter call.
adapterVars == <<a_kind, a_in, a_pc, a_file, a_net, a_ret, a_name, a_auth, a_resp>>

\* State of cli.main.
cliVars == <<parsed, exit_code>>

\* State of the source-kind inference of one entry.
inferVars == <<i_entry, i_parser, i_pydantic, i_orch>>

\* State of the TokenValidator calls.
validatorVars == <<v_pc, v_net, v_resp, v_ret>>

\* State of the download tasks that share one target path.
sharedVars == <<s_pc, s_chunks, s_ret, s_file>>

\* State of the orchestrator.
orchVars == <<entryPoint, dry_run, max_concurrent, manifest, pc, idx,
              model_configs, download_tasks, tstate, results, semaphore,
              inflight, adapterCalls, processed, ret, cliVars>>

vars == <<entryPoint, dry_run, max_concurrent, manifest, pc, idx,
          model_configs, download_tasks, tstate, results, semaphore,
          inflight, adapterCalls, processed, ret, tokenVars, fsWrites,
          adapterVars, cliVars, inferVars, validatorVars, sharedVars>>

\* ------------------------------------------------------- manifest entries
\* An entry is what the code reads of it: the source string of the manifest
\* ("" when the manifest gives none) and which source-specific fields are
\* present and non-empty.  bare marks an entry that is a URL string instead
\* of a table.
Entry(src, repo, version_id, url) ==
    [source |-> src, repo |-> repo, version_id |-> version_id, url |-> url,
     gated |-> FALSE, bare |-> FALSE]

\* The entry  name = "https://host/x.bin".
BareUrl == [Entry("", FALSE, FALSE, TRUE) EXCEPT !.bare = TRUE]

\* The same entry with gated = true.
GatedEntry(src, repo, version_id, url) ==
    [Entry(src, repo, version_id, url) EXCEPT !.gated = TRUE]

\* The entries explored.  All of them pass ConfigParser._validate_config.
EntryKinds ==
    { Entry("huggingface", TRUE,  FALSE, FALSE),   \* hub, explicit source
      Entry("civitai",     FALSE, TRUE,  FALSE),   \* marketplace, model_id + version_id
      Entry("url",         FALSE, FALSE, TRUE),    \* direct URL
      Entry("civitai",     FALSE, FALSE, FALSE),   \* marketplace, model_id only
      Entry("",            TRUE,  FALSE, FALSE) }  \* hub, source left out

Manifests == UNION { [1..n -> EntryKinds] : n \in 0..MaxModels }

\* The name of manifest entry k (dictionary keys: unique within the run).
ModelName(k) == <<"entry", k>>

\* ModelSource: the values the enum accepts.
ModelSource == {"huggingface", "civitai", "url"}

\* ModelConfigPydantic.validate_source: source is the first field, so no
\* other field has been validated yet when it runs and nothing is detected.
PydanticSource(e) == IF e.source # "" THEN e.source ELSE "unknown"

\* ModelConfig.__post_init__ that checks nothing.
PostInitOkAlways(src, e) == TRUE

\* ModelConfig.__post_init__: the field required by the source kind.
PostInitOk(src, e) ==
    /\ (src = "huggingface" => e.repo)
    /\ (src = "civitai" => e.version_id)
    /\ (src = "url" => e.url)

\* Lines 283-295 of _download_models_typed: ModelSource(...) and
\* ModelConfig(...) both return without raising.
ConstructOk(e) ==
    /\ PydanticSource(e) \in ModelSource
    /\ PostInitOk(PydanticSource(e), e)

\* ProvisioningSystem._detect_source (the dict-based path).
DetectSource(e) ==
    IF e.repo THEN "huggingface"
    ELSE IF e.version_id THEN "civitai"
    ELSE IF e.url THEN "url"
    ELSE "unknown"

\* _create_download_task: a string is a direct URL; for a dict
\* source = model_config.get("source", detect).
LegacySource(e) ==
    IF e.bare THEN "url"
    ELSE IF e.source # "" THEN e.source ELSE DetectSource(e)

\* ------------------------------------------------------------ result values
NoName == <<"none", 0>>
NoMsg == <<"none", 0>>

Result(type, name, success, msg) ==
    [type |-> type, model_name |-> name, success |-> success,
     error_message |-> msg]

NoResult == Result("none", NoName, FALSE, NoMsg)

\* A coroutine object of _download_*_typed for entry k that nobody awaited.
CoroutineObject(k) == Result("coroutine", ModelName(k), FALSE, NoMsg)

\* DownloadResult(model_name=..., success=..., error_message=...)
DownloadResult(name, success, msg) == Result("DownloadResult", name, success, msg)

\* An exception instance whose str() is msg.
ExceptionOf(k, msg) == Result("exception", ModelName(k), FALSE, msg)

\* A bare bool, as the dict-based download coroutines return.
BoolResult(b) == Result("bool", NoName, b, NoMsg)

\* ProvisioningSummary(...)
ProvisioningSummary(total, successful, failed, skipped, res) ==
    [kind |-> "summary", total_models |-> total,
     successful_downloads |-> successful, failed_downloads |-> failed,
     skipped_models |-> skipped, results |-> res, value |-> FALSE,
     error |-> ""]

NoReturn == [kind |-> "none", total_models |-> 0, successful_downloads |-> 0,
             failed_downloads |-> 0, skipped_models |-> 0, results |-> <<>>,
             value |-> FALSE, error |-> ""]

\* The entry point raised ProvisioningError("Provisioning from URL failed: " + msg).
Raised(msg) == [NoReturn EXCEPT !.kind = "raised", !.error = msg]

\* str() of the exception a failed fetch, parse or validation raises.
ParseError == "Failed to fetch and parse config"

\* str() of the AttributeError that reading .success of a coroutine raises.
AttributeError == "'coroutine' object has no attribute 'success'"

\* provision_from_file's bool.
ReturnBool(b) == [NoReturn EXCEPT !.kind = "bool", !.value = b]

\* _execute_concurrent_downloads's list, when it is called on its own.
ReturnList(res) == [NoReturn EXCEPT !.kind = "list", !.results = res]

\* ------------------------------------------------------------------ tasks
\* kind "create_typed": the coroutine of _create_typed_download_task
\* kind "legacy":       the coroutine of _download_<source>_model / _download_direct_url
\* kinds "returns_ok", "returns_fail", "raises": awaitables given to
\*   _execute_concurrent_downloads directly (SpecExec only)
Task(k, kind) == [model |-> k, kind |-> kind]

\* --------------------------------------------------- token pre-flight data
Platforms == {"huggingface", "civitai"}

\* What _validate_tokens knows of a platform: validate_*_token not called
\* ("none"), or its verdict.
NotValidated == [huggingface |-> "none", civitai |-> "none"]

Verdict(ok) == IF ok THEN "valid" ELSE "invalid"

\* _find_gated_models: the dict entries with gated = true.
FindGatedModels == {k \in DOMAIN manifest : manifest[k].gated}

\* validate_hf_token / validate_civitai_token: False without a request when
\* the token is absent, else the verdict of one GET.
TokenOutcomes(present) == IF present THEN BOOLEAN ELSE {FALSE}

\* The platforms whose validate call sends its GET.
ProbedPlatforms ==
    (IF hf_token THEN {"huggingface"} ELSE {})
        \cup (IF civitai_token THEN {"civitai"} ELSE {})

\* _validate_tokens, line 188: source = model.get("source", "unknown").
GatedLogSource(e) == IF e.source # "" THEN e.source ELSE "unknown"

\* Lines 187-192: the number of _log_gated_model_error calls for an entry.
DeniedCount(e, hfOk, cvOk) ==
    IF ~e.gated THEN 0
    ELSE IF GatedLogSource(e) = "huggingface" /\ ~hfOk THEN 1
    ELSE IF GatedLogSource(e) = "civitai" /\ ~cvOk THEN 1
    ELSE 0

\* ----------------------------------------------------------- adapter data
\* No adapter call is being looked at.
NoInput == [filename |-> FALSE, bad_filename |-> FALSE, gated |-> FALSE,
            url_named |-> FALSE, drive |-> FALSE, meta_named |-> FALSE,
            existed |-> FALSE, auth |-> "none", env_set |-> FALSE]

\* No GET answered yet.
NoResponse == [kind |-> "none", chunks |-> 0]

AdapterIdle ==
    /\ a_kind = "none"
    /\ a_in = NoInput
    /\ a_pc = "idle"
    /\ a_file = "absent"
    /\ a_net = <<>>
    /\ a_ret = "none"
    /\ a_name = "none"
    /\ a_auth = "none"
    /\ a_resp = NoResponse

\* ------------------------------------------------------------- other data
\* cli.main has not called sys.exit.
NotExited == -1

\* No entry is having its source kind inferred.
NoEntry == [source |-> "", repo |-> FALSE, model_id |-> FALSE,
            version_id |-> FALSE, url |-> FALSE]

InferIdle ==
    /\ i_entry = NoEntry
    /\ i_parser = "none"
    /\ i_pydantic = "none"
    /\ i_orch = "none"

\* No TokenValidator method is being looked at.
ValidatorIdle ==
    /\ v_pc = [p \in {"huggingface", "civitai"} |-> "idle"]
    /\ v_net = [p \in {"huggingface", "civitai"} |-> 0]
    /\ v_resp = [p \in {"huggingface", "civitai"} |-> "none"]
    /\ v_ret = [p \in {"huggingface", "civitai"} |-> "none"]

\* No task on a shared target path.
SharedIdle ==
    /\ s_pc = <<>>
    /\ s_chunks = <<>>
    /\ s_ret = <<>>
    /\ s_file = [exists |-> FALSE, by |-> 0]

\* ------------------------------------------------------------------- Init
\* __init__, lines 65-66 and 79: models_dir, logs_dir and the log file are
\* created at construction, before cli.main sets dry_run.
ConstructionWrites == {"models_dir", "logs_dir", "provision.log"}

\* ProvisioningSystem.__init__ followed by cli.main setting dry_run.
InitCommon ==
    /\ validated = NotValidated
    /\ probes = {}
    /\ deniedLog = [k \in DOMAIN manifest |-> 0]
    /\ fsWrites = ConstructionWrites
    /\ AdapterIdle
    /\ InferIdle
    /\ ValidatorIdle
    /\ SharedIdle
    /\ parsed = "none"
    /\ exit_code = NotExited
    /\ max_concurrent \in 1..MaxConcurrent
    /\ semaphore = max_concurrent
    /\ idx = 1
    /\ model_configs = <<>>
    /\ inflight = {}
    /\ adapterCalls = [k \in DOMAIN manifest |-> 0]
    /\ processed = <<>>
    /\ ret = NoReturn

Init ==
    /\ entryPoint \in {"url", "file"}
    /\ manifest \in Manifests
    /\ dry_run \in BOOLEAN
    /\ hf_token = FALSE
    /\ civitai_token = FALSE
    /\ pc = "start"
    /\ download_tasks = <<>>
    /\ tstate = <<>>
    /\ results = <<>>
    /\ InitCommon

\* --------------------------------------------- the two entry points: parse
\* config_parser.fetch_and_parse + ProvisionConfigPydantic(...), or
\* config_parser.parse_file.  A failure leaves through the entry point's
\* except clause: provision_from_url re-raises, provision_from_file
\* returns False.
\* ParseFailure that reports success to the caller.
ParseFailureSwallowed == ReturnBool(TRUE)

ParseFailure == IF entryPoint = "url" THEN Raised(ParseError) ELSE ReturnBool(FALSE)

\* ProvisionConfigPydantic(**config_dict), models: Dict[str, Dict[str,
\* ModelConfigPydantic]]: a string is not a ModelConfigPydantic, the
\* constructor raises ValidationError.
PydanticAccepts == \A k \in DOMAIN manifest : ~manifest[k].bare

\* parsed is "failed" when fetching, reading, TOML parsing or
\* ConfigParser._validate_config raised, "rejected" when
\* ProvisionConfigPydantic raised on the parsed manifest, else "ok".
FetchAndParse ==
    /\ pc = "start"
    /\ \E fetched \in BOOLEAN :
         IF ~fetched
         THEN pc' = "done" /\ ret' = ParseFailure /\ parsed' = "failed"
         ELSE IF entryPoint = "url" /\ ~PydanticAccepts
         THEN pc' = "done" /\ ret' = ParseFailure /\ parsed' = "rejected"
         ELSE pc' = "tokens" /\ ret' = ret /\ parsed' = "ok"
    /\ UNCHANGED exit_code
    /\ UNCHANGED <<tokenVars, fsWrites, adapterVars, inferVars, validatorVars, sharedVars>>
    /\ UNCHANGED <<entryPoint, dry_run, max_concurrent, manifest, idx,
                   model_configs, download_tasks, tstate, results, semaphore,
                   inflight, adapterCalls, processed>>

\* _validate_tokens: nothing when no entry is gated; otherwise both
\* validators are called, then one error is logged per gated entry whose
\* source string names a platform with an invalid token.  It logs only; it
\* never raises and never changes the batch.
ValidateTokens ==
    /\ pc = "tokens"
    /\ pc' = "build"
    /\ IF FindGatedModels = {}
       THEN UNCHANGED <<validated, probes, deniedLog>>
       ELSE \E hfOk \in TokenOutcomes(hf_token), cvOk \in TokenOutcomes(civitai_token) :
              /\ validated' = [huggingface |-> Verdict(hfOk), civitai |-> Verdict(cvOk)]
              /\ probes' = ProbedPlatforms
              /\ deniedLog' = [k \in DOMAIN manifest |->
                                  DeniedCount(manifest[k], hfOk, cvOk)]
    /\ UNCHANGED <<hf_token, civitai_token>>
    /\ UNCHANGED <<fsWrites, adapterVars, inferVars, validatorVars, sharedVars>>
    /\ UNCHANGED cliVars
    /\ UNCHANGED <<entryPoint, dry_run, max_concurrent, manifest, idx,
                   model_configs, download_tasks, tstate, results, semaphore,
                   inflight, adapterCalls, processed, ret>>

\* Lines 277-278 and 234-235: the category directory is created unless
\* dry_run is set.
MkCategoryDir(w) == IF dry_run THEN w ELSE w \cup {"category_dir"}

\* ------------------------------------------ _download_models_typed: the loop
\* One iteration of "for model_name, model_config_data in models.items()".
\* A construction failure is logged and nothing else.
\* TypedTasksAfter that drops an entry the pre-flight logged as denied.
TypedTasksAfterUnlessDenied(tasks, k) ==
    IF ConstructOk(manifest[k]) /\ ~dry_run /\ deniedLog[k] = 0
    THEN Append(tasks, Task(k, "create_typed"))
    ELSE tasks

TypedTasksAfter(tasks, k) ==
    IF ConstructOk(manifest[k]) /\ ~dry_run
    THEN Append(tasks, Task(k, "create_typed"))
    ELSE tasks

\* TypedConfigsAfter that records the entry before it is validated.
TypedConfigsAfterAll(configs, k) == Append(configs, k)

TypedConfigsAfter(configs, k) ==
    IF ConstructOk(manifest[k]) THEN Append(configs, k) ELSE configs

BuildTyped ==
    /\ pc = "build" /\ entryPoint = "url"
    /\ idx <= Len(manifest)
    /\ model_configs' = TypedConfigsAfter(model_configs, idx)
    /\ download_tasks' = TypedTasksAfter(download_tasks, idx)
    /\ fsWrites' = MkCategoryDir(fsWrites)
    /\ idx' = idx + 1
    /\ UNCHANGED <<tokenVars, adapterVars, inferVars, validatorVars, sharedVars>>
    /\ UNCHANGED cliVars
    /\ UNCHANGED <<entryPoint, dry_run, max_concurrent, manifest, pc, tstate,
                   results, semaphore, inflight, adapterCalls, processed, ret>>

\* DryRunSummary with every entry also counted as skipped.
DryRunSummarySkipsAll(configs) ==
    ProvisioningSummary(Len(configs), Len(configs), 0, Len(configs), <<>>)

\* The summary of the dry-run branch (lines 309-316).
DryRunSummary(configs) ==
    ProvisioningSummary(Len(configs), Len(configs), 0, 0, <<>>)

\* The summary of the "No models to download" branch (lines 318-325).
EmptySummary == ProvisioningSummary(0, 0, 0, 0, <<>>)

StartGather ==
    /\ pc' = "gather"
    /\ tstate' = [i \in DOMAIN download_tasks |-> "pending"]
    /\ results' = [i \in DOMAIN download_tasks |-> NoResult]
    /\ ret' = ret

EndBuildTyped ==
    /\ pc = "build" /\ entryPoint = "url"
    /\ idx > Len(manifest)
    /\ IF dry_run
       THEN pc' = "done" /\ ret' = DryRunSummary(model_configs)
            /\ UNCHANGED <<tstate, results>>
       ELSE IF download_tasks = <<>>
       THEN pc' = "done" /\ ret' = EmptySummary
            /\ UNCHANGED <<tstate, results>>
       ELSE StartGather
    /\ UNCHANGED <<tokenVars, fsWrites, adapterVars, inferVars, validatorVars, sharedVars>>
    /\ UNCHANGED cliVars
    /\ UNCHANGED <<entryPoint, dry_run, max_concurrent, manifest, idx,
                   model_configs, download_tasks, semaphore, inflight,
                   adapterCalls, processed>>

\* ------------------------------------------------ _download_models: the loop
\* _create_download_task returns a coroutine for the three known sources
\* and None otherwise.
LegacyTasksAfter(tasks, k) ==
    IF ~dry_run /\ LegacySource(manifest[k]) \in ModelSource
    THEN Append(tasks, Task(k, "legacy"))
    ELSE tasks

BuildLegacy ==
    /\ pc = "build" /\ entryPoint = "file"
    /\ idx <= Len(manifest)
    /\ download_tasks' = LegacyTasksAfter(download_tasks, idx)
    /\ fsWrites' = MkCategoryDir(fsWrites)
    /\ idx' = idx + 1
    /\ UNCHANGED <<tokenVars, adapterVars, inferVars, validatorVars, sharedVars>>
    /\ UNCHANGED cliVars
    /\ UNCHANGED <<entryPoint, dry_run, max_concurrent, manifest, pc,
                   model_configs, tstate, results, semaphore, inflight,
                   adapterCalls, processed, ret>>

EndBuildLegacy ==
    /\ pc = "build" /\ entryPoint = "file"
    /\ idx > Len(manifest)
    /\ IF dry_run \/ download_tasks = <<>>
       THEN pc' = "done" /\ ret' = ReturnBool(TRUE)
            /\ UNCHANGED <<tstate, results>>
       ELSE StartGather
    /\ UNCHANGED <<tokenVars, fsWrites, adapterVars, inferVars, validatorVars, sharedVars>>
    /\ UNCHANGED cliVars
    /\ UNCHANGED <<entryPoint, dry_run, max_concurrent, manifest, idx,
                   model_configs, download_tasks, semaphore, inflight,
                   adapterCalls, processed>>

\* ------------------------------------- _execute_concurrent_downloads: gather
AllDone == \A i \in DOMAIN tstate : tstate[i] = "done"

\* Leaving "async with self._semaphore": the slot goes back.
SemReleaseLost(v) == v

SemRelease(v) == v + 1

\* download_with_semaphore: "async with self._semaphore" entered.
Acquire(i) ==
    /\ pc = "gather" /\ entryPoint \in {"url", "exec"}
    /\ i \in DOMAIN tstate /\ tstate[i] = "pending"
    /\ semaphore > 0
    /\ semaphore' = semaphore - 1
    /\ tstate' = [tstate EXCEPT ![i] = "holding"]
    /\ UNCHANGED <<tokenVars, fsWrites, adapterVars, inferVars, validatorVars, sharedVars>>
    /\ UNCHANGED cliVars
    /\ UNCHANGED <<entryPoint, dry_run, max_concurrent, manifest, pc, idx,
                   model_configs, download_tasks, results, inflight,
                   adapterCalls, processed, ret>>

\* The adapter call of _download_civitai_model(_typed) passes version_id=
\* to CivitAIDownloader.download(model_name, model_id, target_dir, filename):
\* the call raises TypeError before the adapter's body runs.
AdapterCallBinds(src) == src # "civitai"

\* Does awaiting the task enter an adapter's download()?
EntersAdapter(t) ==
    /\ t.kind = "download_typed"
    /\ AdapterCallBinds(PydanticSource(manifest[t.model]))

\* What "await task" yields for a task that never enters an adapter.
\*  create_typed:   _create_typed_download_task returns the coroutine object
\*                  of _download_<source>_typed without awaiting it
\*  raises:         the awaitable raises
\*  download_typed: the except clause of _download_civitai_model_typed
AwaitImmediate(t) ==
    CASE t.kind = "create_typed" -> CoroutineObject(t.model)
      [] t.kind = "raises" -> ExceptionOf(t.model, <<"boom", t.model>>)
      [] OTHER -> DownloadResult(ModelName(t.model), FALSE,
                                 <<"CivitAI download failed", t.model>>)

\* "return await task" completes and __aexit__ releases the slot; gather
\* (return_exceptions=True) records the value or the exception.
FinishAwait(i) ==
    /\ pc = "gather" /\ entryPoint \in {"url", "exec"}
    /\ i \in DOMAIN tstate /\ tstate[i] = "holding"
    /\ ~EntersAdapter(download_tasks[i])
    /\ results' = [results EXCEPT ![i] = AwaitImmediate(download_tasks[i])]
    /\ tstate' = [tstate EXCEPT ![i] = "done"]
    /\ semaphore' = SemRelease(semaphore)
    /\ UNCHANGED <<tokenVars, fsWrites, adapterVars, inferVars, validatorVars, sharedVars>>
    /\ UNCHANGED cliVars
    /\ UNCHANGED <<entryPoint, dry_run, max_concurrent, manifest, pc, idx,
                   model_configs, download_tasks, inflight, adapterCalls,
                   processed, ret>>

\* _download_<source>_typed reaches "await self.<adapter>.download(...)".
StartAdapter(i) ==
    /\ pc = "gather" /\ entryPoint = "exec"
    /\ i \in DOMAIN tstate /\ tstate[i] = "holding"
    /\ EntersAdapter(download_tasks[i])
    /\ tstate' = [tstate EXCEPT ![i] = "running"]
    /\ inflight' = inflight \cup {download_tasks[i].model}
    /\ adapterCalls' = [adapterCalls EXCEPT ![download_tasks[i].model] = @ + 1]
    /\ UNCHANGED <<tokenVars, fsWrites, adapterVars, inferVars, validatorVars, sharedVars>>
    /\ UNCHANGED cliVars
    /\ UNCHANGED <<entryPoint, dry_run, max_concurrent, manifest, pc, idx,
                   model_configs, download_tasks, results, semaphore,
                   processed, ret>>

\* The adapter returns its bool; _download_<source>_typed wraps it in a
\* DownloadResult, and the slot is released.
FinishAdapter(i) ==
    /\ pc = "gather" /\ entryPoint = "exec"
    /\ i \in DOMAIN tstate /\ tstate[i] = "running"
    /\ \E success \in BOOLEAN :
         results' = [results EXCEPT ![i] =
             DownloadResult(ModelName(download_tasks[i].model), success, NoMsg)]
    /\ tstate' = [tstate EXCEPT ![i] = "done"]
    /\ inflight' = inflight \ {download_tasks[i].model}
    /\ semaphore' = SemRelease(semaphore)
    /\ UNCHANGED <<tokenVars, fsWrites, adapterVars, inferVars, validatorVars, sharedVars>>
    /\ UNCHANGED cliVars
    /\ UNCHANGED <<entryPoint, dry_run, max_concurrent, manifest, pc, idx,
                   model_configs, download_tasks, adapterCalls, processed, ret>>

\* Lines 355-367: exceptions become DownloadResult objects named by position.
ProcessOne(i, r) ==
    IF r.type = "exception"
    THEN DownloadResult(<<"model_", i - 1>>, FALSE, r.error_message)
    ELSE r

ProcessResults(res) == [i \in DOMAIN res |-> ProcessOne(i, res[i])]

\* Lines 332-344 and 118-127: "r.success" of every result is read; a
\* result that is not a DownloadResult has no such attribute, the
\* AttributeError leaves _download_models_typed and provision_from_url
\* re-raises it as ProvisioningError.
IsSuccess(r) == r.success

\* sum(1 for r in results if r.success)
CountSuccess(res) == Cardinality({i \in DOMAIN res : IsSuccess(res[i])})

SummaryOf(res) ==
    IF \E i \in DOMAIN res : res[i].type # "DownloadResult"
    THEN Raised(AttributeError)
    ELSE ProvisioningSummary(Len(res), CountSuccess(res),
                             Len(res) - CountSuccess(res), 0, res)

ReturnTyped ==
    /\ pc = "gather" /\ entryPoint = "url"
    /\ AllDone
    /\ processed' = ProcessResults(results)
    /\ ret' = SummaryOf(ProcessResults(results))
    /\ pc' = "done"
    /\ UNCHANGED <<tokenVars, fsWrites, adapterVars, inferVars, validatorVars, sharedVars>>
    /\ UNCHANGED cliVars
    /\ UNCHANGED <<entryPoint, dry_run, max_concurrent, manifest, idx,
                   model_configs, download_tasks, tstate, results, semaphore,
                   inflight, adapterCalls>>

\* _execute_concurrent_downloads returns processed_results.
ReturnExec ==
    /\ pc = "gather" /\ entryPoint = "exec"
    /\ AllDone
    /\ processed' = ProcessResults(results)
    /\ ret' = ReturnList(ProcessResults(results))
    /\ pc' = "done"
    /\ UNCHANGED <<tokenVars, fsWrites, adapterVars, inferVars, validatorVars, sharedVars>>
    /\ UNCHANGED cliVars
    /\ UNCHANGED <<entryPoint, dry_run, max_concurrent, manifest, idx,
                   model_configs, download_tasks, tstate, results, semaphore,
                   inflight, adapterCalls>>

\* ------------------------------------------------ _download_models: gather
\* asyncio.gather(*download_tasks): every coroutine starts at once, no
\* semaphore.  _download_<source>_model calls the adapter inside try/except;
\* the civitai call raises TypeError (or KeyError when version_id is absent)
\* and the except clause returns False.
StartLegacy(i) ==
    /\ pc = "gather" /\ entryPoint = "file"
    /\ i \in DOMAIN tstate /\ tstate[i] = "pending"
    /\ LET k == download_tasks[i].model IN
         IF AdapterCallBinds(LegacySource(manifest[k]))
         THEN /\ tstate' = [tstate EXCEPT ![i] = "running"]
              /\ inflight' = inflight \cup {k}
              /\ adapterCalls' = [adapterCalls EXCEPT ![k] = @ + 1]
              /\ results' = results
         ELSE /\ tstate' = [tstate EXCEPT ![i] = "done"]
              /\ results' = [results EXCEPT ![i] = BoolResult(FALSE)]
              /\ UNCHANGED <<inflight, adapterCalls>>
    /\ UNCHANGED <<tokenVars, fsWrites, adapterVars, inferVars, validatorVars, sharedVars>>
    /\ UNCHANGED cliVars
    /\ UNCHANGED <<entryPoint, dry_run, max_concurrent, manifest, pc, idx,
                   model_configs, download_tasks, semaphore, processed, ret>>

FinishLegacy(i) ==
    /\ pc = "gather" /\ entryPoint = "file"
    /\ i \in DOMAIN tstate /\ tstate[i] = "running"
    /\ \E success \in BOOLEAN :
         results' = [results EXCEPT ![i] = BoolResult(success)]
    /\ tstate' = [tstate EXCEPT ![i] = "done"]
    /\ inflight' = inflight \ {download_tasks[i].model}
    /\ UNCHANGED <<tokenVars, fsWrites, adapterVars, inferVars, validatorVars, sharedVars>>
    /\ UNCHANGED cliVars
    /\ UNCHANGED <<entryPoint, dry_run, max_concurrent, manifest, pc, idx,
                   model_configs, download_tasks, semaphore, adapterCalls,
                   processed, ret>>

\* Lines 260-266: successes are the results that are True.
LegacyVerdict(res) == Len(res) - CountSuccess(res) = 0

ReturnLegacy ==
    /\ pc = "gather" /\ entryPoint = "file"
    /\ AllDone
    /\ ret' = ReturnBool(LegacyVerdict(results))
    /\ pc' = "done"
    /\ UNCHANGED <<tokenVars, fsWrites, adapterVars, inferVars, validatorVars, sharedVars>>
    /\ UNCHANGED cliVars
    /\ UNCHANGED <<entryPoint, dry_run, max_concurrent, manifest, idx,
                   model_configs, download_tasks, tstate, results, semaphore,
                   inflight, adapterCalls, processed>>

\* ------------------------------------------------------------- cli.main
\* ExitCodeOf that takes any bool for success.
ExitCodeOfAnyBool(r) ==
    IF r.kind = "summary" THEN (IF r.failed_downloads = 0 THEN 0 ELSE 1)
    ELSE IF r.kind = "bool" THEN 0
    ELSE 1

\* cli.py lines 67-80: success is failed_downloads == 0 of a summary, the
\* bool itself otherwise; an exception of the entry point gives exit code 1.
ExitCodeOf(r) ==
    IF r.kind = "summary" THEN (IF r.failed_downloads = 0 THEN 0 ELSE 1)
    ELSE IF r.kind = "bool" THEN (IF r.value THEN 0 ELSE 1)
    ELSE 1

CliExit ==
    /\ pc = "done" /\ entryPoint \in {"url", "file"}
    /\ pc' = "exited"
    /\ exit_code' = ExitCodeOf(ret)
    /\ UNCHANGED <<tokenVars, fsWrites, adapterVars, inferVars, validatorVars, sharedVars>>
    /\ UNCHANGED <<parsed, entryPoint, dry_run, max_concurrent, manifest, idx,
                   model_configs, download_tasks, tstate, results, semaphore,
                   inflight, adapterCalls, processed, ret>>

\* ---------------------------------------------------------- specifications
Next ==
    \/ FetchAndParse
    \/ ValidateTokens
    \/ BuildTyped
    \/ EndBuildTyped
    \/ BuildLegacy
    \/ EndBuildLegacy
    \/ \E i \in 1..MaxModels : Acquire(i)
    \/ \E i \in 1..MaxModels : FinishAwait(i)
    \/ ReturnTyped
    \/ \E i \in 1..MaxModels : StartLegacy(i)
    \/ \E i \in 1..MaxModels : FinishLegacy(i)
    \/ ReturnLegacy
    \/ CliExit

Spec == Init /\ [][Next]_vars

\* The same program on manifests with gated entries, with either token
\* present or absent in the environment.
TokenKinds ==
    { GatedEntry("huggingface", TRUE,  FALSE, FALSE),   \* gated hub, source declared
      GatedEntry("",            TRUE,  FALSE, FALSE),   \* gated hub, source inferred
      GatedEntry("civitai",     FALSE, TRUE,  FALSE),   \* gated marketplace
      Entry("huggingface",      TRUE,  FALSE, FALSE),   \* hub, not gated
      Entry("url",              FALSE, FALSE, TRUE) }   \* direct URL, not gated

TokenManifests == UNION { [1..n -> TokenKinds] : n \in 0..MaxModels }

InitTokens ==
    /\ entryPoint \in {"url", "file"}
    /\ manifest \in TokenManifests
    /\ dry_run \in BOOLEAN
    /\ hf_token \in BOOLEAN
    /\ civitai_token \in BOOLEAN
    /\ pc = "start"
    /\ download_tasks = <<>>
    /\ tstate = <<>>
    /\ results = <<>>
    /\ InitCommon

SpecTokens == InitTokens /\ [][Next]_vars

\* The same program on manifests that use the URL-string shorthand.
ShorthandKinds ==
    { BareUrl,
      Entry("url",         FALSE, FALSE, TRUE),
      Entry("huggingface", TRUE,  FALSE, FALSE) }

ShorthandManifests == UNION { [1..n -> ShorthandKinds] : n \in 0..MaxModels }

InitShorthand ==
    /\ entryPoint \in {"url", "file"}
    /\ manifest \in ShorthandManifests
    /\ dry_run \in BOOLEAN
    /\ hf_token = FALSE
    /\ civitai_token = FALSE
    /\ pc = "start"
    /\ download_tasks = <<>>
    /\ tstate = <<>>
    /\ results = <<>>
    /\ InitCommon

SpecShorthand == InitShorthand /\ [][Next]_vars

\* _execute_concurrent_downloads called on a list of awaitables, one per
\* valid ModelConfig: the coroutine the build loop collects ("create_typed"),
\* the coroutine of _download_<source>_typed itself ("download_typed"), or an
\* awaitable that raises ("raises").
ExecKinds == {"create_typed", "download_typed", "raises"}

InitExec ==
    /\ entryPoint = "exec"
    /\ manifest \in {m \in Manifests : \A k \in DOMAIN m : ConstructOk(m[k])}
    /\ dry_run = FALSE
    /\ hf_token = FALSE
    /\ civitai_token = FALSE
    /\ pc = "gather"
    /\ download_tasks \in
         {[k \in DOMAIN manifest |-> Task(k, f[k])] :
              f \in [DOMAIN manifest -> ExecKinds]}
    /\ tstate = [i \in DOMAIN download_tasks |-> "pending"]
    /\ results = [i \in DOMAIN download_tasks |-> NoResult]
    /\ InitCommon

NextExec ==
    \/ \E i \in 1..MaxModels : Acquire(i)
    \/ \E i \in 1..MaxModels : FinishAwait(i)
    \/ \E i \in 1..MaxModels : StartAdapter(i)
    \/ \E i \in 1..MaxModels : FinishAdapter(i)
    \/ ReturnExec

SpecExec == InitExec /\ [][NextExec]_vars

\* The same call on hub and marketplace models only, under fairness: the
\* event loop runs every task that is ready, and every adapter call
\* eventually returns or raises.
LiveKinds ==
    { Entry("huggingface", TRUE,  FALSE, FALSE),
      Entry("civitai",     FALSE, TRUE,  FALSE) }

LiveManifests == UNION { [1..n -> LiveKinds] : n \in 0..MaxModels }

InitLive == InitExec /\ manifest \in LiveManifests

FairSpecExec == InitLive /\ [][NextExec]_vars /\ WF_vars(NextExec)

\* ------------------------------------------------- one adapter download()
\* The arguments and the environment of a call:
\*   filename      the filename / file argument is given (not "")
\*   bad_filename  the filename argument is not a string (filename = 123 in
\*                 the manifest reaches the adapter as an int)
\*   gated         the gated argument (hub only)
\*   url_named     the URL's path has a dotted last component (direct URL only)
\*   drive         the processed URL contains drive.google.com (direct URL only)
\*   meta_named    the marketplace metadata gives a non-empty file name
\*   existed       a file exists at the resolved target path when the call starts
\*   auth          headers['auth_header'] (direct URL only): absent ("none"),
\*                 a string without placeholder ("literal"), or a string with
\*                 a ${VAR} placeholder ("template")
\*   env_set       the environment variable VAR of the placeholder is set
\* huggingface_hub is importable (HF_AVAILABLE) and the target directory
\* exists.
AdapterInputs ==
    { i \in [filename : BOOLEAN, bad_filename : BOOLEAN, gated : BOOLEAN,
             url_named : BOOLEAN, drive : BOOLEAN, meta_named : BOOLEAN,
             existed : BOOLEAN, auth : {"none", "literal", "template"},
             env_set : BOOLEAN] :
        /\ i.bad_filename => (i.filename /\ ~i.existed)
        /\ i.drive => ~i.url_named
        /\ i.env_set => i.auth = "template" }

InputsOf(kind) ==
    CASE kind = "huggingface" ->
           {i \in AdapterInputs : ~i.url_named /\ ~i.drive /\ ~i.meta_named
                                   /\ i.auth = "none"}
      [] kind = "civitai" ->
           {i \in AdapterInputs : ~i.gated /\ ~i.url_named /\ ~i.drive
                                   /\ i.auth = "none"}
      [] OTHER ->
           {i \in AdapterInputs : ~i.gated /\ ~i.meta_named}

\* The orchestrator is not running: entry point ep is looked at on its own.
OrchIdle(ep) ==
    /\ entryPoint = ep
    /\ pc = ep
    /\ manifest = <<>>
    /\ dry_run = FALSE
    /\ max_concurrent = 1
    /\ semaphore = 1
    /\ idx = 1
    /\ model_configs = <<>>
    /\ download_tasks = <<>>
    /\ tstate = <<>>
    /\ results = <<>>
    /\ inflight = {}
    /\ adapterCalls = <<>>
    /\ processed = <<>>
    /\ ret = NoReturn
    /\ validated = NotValidated
    /\ probes = {}
    /\ deniedLog = <<>>
    /\ fsWrites = {}
    /\ parsed = "none"
    /\ exit_code = NotExited

InitAdapter ==
    /\ OrchIdle("adapter")
    /\ hf_token = FALSE
    /\ civitai_token = FALSE
    /\ InferIdle
    /\ ValidatorIdle
    /\ SharedIdle
    /\ a_kind \in ModelSource
    /\ a_in \in InputsOf(a_kind)
    /\ a_pc = "call"
    /\ a_file = IF a_in.existed THEN "present" ELSE "absent"
    /\ a_net = <<>>
    /\ a_ret = "none"
    /\ a_name = "none"
    /\ a_auth = "none"
    /\ a_resp = NoResponse

\* What a GET of _download_file leaves alone.
TransferFrame ==
    UNCHANGED <<orchVars, tokenVars, fsWrites, inferVars, validatorVars, sharedVars, a_kind, a_in>>

AdapterFrame == TransferFrame /\ UNCHANGED <<a_auth, a_resp>>

\* _download_file that sends auth_header as it was given.
AuthorizationUnresolved(in) ==
    IF in.auth = "none" THEN "none" ELSE in.auth

\* direct.py lines 124-133: Authorization is set only when auth_header has
\* a placeholder whose variable is set; its value is auth_header with the
\* placeholder replaced.
AuthorizationOf(in) ==
    IF in.auth = "template" /\ in.env_set THEN "resolved" ELSE "none"

\* The Authorization header of the GET: of _download_file of the direct-URL
\* adapter, or "Bearer <CIVITAI_TOKEN>" of the marketplace adapter.
AuthorizationSent ==
    IF a_kind = "url" THEN AuthorizationOf(a_in)
    ELSE IF civitai_token THEN "token" ELSE "none"

\* download() returns b.
AdapterReturns(b) == a_ret' = (IF b THEN "true" ELSE "false") /\ a_pc' = "done"

\* The except clause of download() that lets the exception out.
ExceptClauseReraises == "raised"

\* "except Exception as e: ... return False", the last clause of each
\* adapter's download().
ExceptClause == "false"

\* An exception raised in the body of download() reaches its except clause.
AdapterCatches == a_ret' = ExceptClause /\ a_pc' = "done"

\* target_file.exists(): with an empty file name target_dir / "" is the
\* target directory itself.
TargetExists(named) == a_file = "present" \/ ~named

\* The hub adapter uses the filename argument as it is: no discovery and no
\* default name.
HfName == IF a_in.filename THEN "explicit" ELSE "empty"

\* civitai.py lines 58-59: model_info always has the key 'filename', so
\* the default of .get() is never taken.
CvName ==
    IF a_in.filename THEN "explicit"
    ELSE IF a_in.meta_named THEN "discovered" ELSE "empty"

\* huggingface.py line 84: the access probe is made for gated models only.
HfNeverProbes(in) == FALSE

HfNeedsProbe(in) == in.gated

\* HuggingFaceDownloader.download, lines 77-87, up to the first await.
\* target_dir / filename raises TypeError for a filename that is no string.
HfCall ==
    /\ a_kind = "huggingface" /\ a_pc = "call"
    /\ IF a_in.bad_filename THEN AdapterCatches /\ a_name' = a_name
       ELSE /\ a_name' = HfName
            /\ IF TargetExists(HfName # "empty") THEN AdapterReturns(TRUE)
               ELSE /\ a_pc' = (IF HfNeedsProbe(a_in) THEN "probe" ELSE "transfer")
                    /\ a_ret' = a_ret
    /\ UNCHANGED <<a_file, a_net>>
    /\ AdapterFrame

\* _can_access_repo: api.repo_info in the executor.
HfProbe ==
    /\ a_kind = "huggingface" /\ a_pc = "probe"
    /\ \E ok \in BOOLEAN :
         IF ok THEN /\ a_net' = Append(a_net, "access_probe_ok")
                    /\ a_pc' = "transfer" /\ a_ret' = a_ret
               ELSE /\ a_net' = Append(a_net, "access_probe_denied")
                    /\ AdapterReturns(FALSE)
    /\ UNCHANGED <<a_file, a_name>>
    /\ AdapterFrame

\* _download_sync: hf_hub_download puts the file at the target path when it
\* completes; a failure gives None and the adapter removes nothing.
HfTransfer ==
    /\ a_kind = "huggingface" /\ a_pc = "transfer"
    /\ a_net' = Append(a_net, "transfer")
    /\ \E ok \in BOOLEAN :
         /\ a_file' = (IF ok THEN "present" ELSE a_file)
         /\ AdapterReturns(ok)
    /\ UNCHANGED a_name
    /\ AdapterFrame

\* CivitAIDownloader.download, lines 51-65: the metadata lookup comes
\* first, then the file name, then the presence check.
CvInfo ==
    /\ a_kind = "civitai" /\ a_pc = "call"
    /\ a_net' = Append(a_net, "metadata")
    /\ \E ok \in BOOLEAN :
         IF ~ok THEN AdapterReturns(FALSE) /\ a_name' = a_name
         ELSE IF a_in.bad_filename THEN AdapterCatches /\ a_name' = a_name
         ELSE /\ a_name' = CvName
              /\ IF TargetExists(CvName # "empty") THEN AdapterReturns(TRUE)
                 ELSE a_pc' = "transfer" /\ a_ret' = a_ret
    /\ UNCHANGED a_file
    /\ AdapterFrame

\* Lines 68-72 of DirectURLDownloader.download, once the name is known.
UrlCheckPresent ==
    IF TargetExists(TRUE) THEN AdapterReturns(TRUE)
    ELSE a_pc' = "transfer" /\ a_ret' = a_ret

\* DirectURLDownloader.download, lines 59-72.  Without a filename argument
\* _get_filename takes the name from the URL's path, else sends a HEAD
\* request.
UrlCall ==
    /\ a_kind = "url" /\ a_pc = "call"
    /\ IF a_in.bad_filename THEN AdapterCatches /\ a_name' = a_name
       ELSE IF ~a_in.filename /\ ~a_in.url_named
       THEN a_pc' = "head" /\ a_ret' = a_ret /\ a_name' = a_name
       ELSE /\ a_name' = (IF a_in.filename THEN "explicit" ELSE "discovered")
            /\ UrlCheckPresent
    /\ UNCHANGED <<a_file, a_net>>
    /\ AdapterFrame

\* _get_filename, lines 100-110: the name of the Content-Disposition header
\* of the HEAD response, else "<model_name>.safetensors" (line 66); then
\* the presence check.
UrlHead ==
    /\ a_kind = "url" /\ a_pc = "head"
    /\ a_net' = Append(a_net, "head")
    /\ \E found \in BOOLEAN : a_name' = (IF found THEN "discovered" ELSE "default")
    /\ UrlCheckPresent
    /\ UNCHANGED a_file
    /\ AdapterFrame

\* The except clauses of _download_file: "if target_file.exists():
\* target_file.unlink()".
CleanupSkipped(f) == f

CleanupPartial(f) == "absent"

\* _download_file of the marketplace and the direct-URL adapter: the GET.
\* A connection error or a status other than 200 returns False before the
\* target file is opened; status 200 opens it for writing.
GetTransfer ==
    /\ a_kind \in {"civitai", "url"} /\ a_pc = "transfer"
    /\ ~a_in.drive
    /\ a_net' = Append(a_net, "transfer")
    /\ \/ /\ \E n \in 0..MaxChunks : a_resp' = [kind |-> "artifact", chunks |-> n]
          /\ a_file' = "partial" /\ a_pc' = "writing" /\ a_ret' = a_ret
       \/ /\ a_resp' = [kind |-> "failed", chunks |-> 0]
          /\ a_file' = a_file /\ AdapterReturns(FALSE)
    /\ UNCHANGED a_name
    /\ a_auth' = AuthorizationSent
    /\ TransferFrame

\* The GET requests of _download_file so far.
Fetches == Cardinality({j \in DOMAIN a_net : a_net[j] = "transfer"})

\* What a GET of a drive.google.com URL can give:
\*   failed         connection error or a status other than 200
\*   confirm_page   status 200, the virus-scan page with a confirm link
\*   page_no_link   status 200, the virus-scan page without that link
\*   artifact       status 200, any other body, which response.text() decodes
\*   undecodable    status 200, a body response.text() cannot decode
DriveResponses ==
    {"failed", "confirm_page", "page_no_link", "artifact", "undecodable"}

\* The sizes, in chunks of iter_chunked, a body of each kind can have: a
\* page is short text, an artifact is any body, one that cannot be decoded
\* is not empty.
BodyChunks(r) ==
    CASE r = "failed" -> {0}
      [] r \in {"confirm_page", "page_no_link"} -> {1}
      [] r = "artifact" -> 0..MaxChunks
      [] OTHER -> 1..MaxChunks

\* _download_file on a drive.google.com URL, lines 137-162.  For status 200
\* response.text() reads the whole body first.  A confirm page makes
\* _download_file call itself with the confirm URL, which is a
\* drive.google.com URL again, so the same lines handle the next response.
\* MaxFetches caps the nesting.
DriveTransfer ==
    /\ a_kind = "url" /\ a_pc = "transfer"
    /\ a_in.drive
    /\ a_net' = Append(a_net, "transfer")
    /\ \E r \in DriveResponses :
         /\ \E n \in BodyChunks(r) : a_resp' = [kind |-> r, chunks |-> n]
         /\ CASE r = "failed" -> a_file' = a_file /\ AdapterReturns(FALSE)
              [] r = "undecodable" ->
                   a_file' = CleanupPartial(a_file) /\ AdapterReturns(FALSE)
              [] r = "confirm_page" ->
                   /\ Fetches + 1 < MaxFetches
                   /\ UNCHANGED <<a_file, a_pc, a_ret>>
              [] OTHER -> a_file' = "partial" /\ a_pc' = "writing" /\ a_ret' = a_ret
    /\ UNCHANGED a_name
    /\ a_auth' = AuthorizationSent
    /\ TransferFrame

ChunksRead == Cardinality({j \in DOMAIN a_net : a_net[j] = "chunk"})

\* Chunks of the response body that iter_chunked can still give: none once
\* response.text() has read the body (line 141).
Unread == IF a_in.drive THEN 0 ELSE a_resp.chunks - ChunksRead

\* One pass of "async for chunk in response.content.iter_chunked(8192)".
\* After response.text() the body has been consumed and the loop gets no
\* chunk.
StreamChunk ==
    /\ a_pc = "writing"
    /\ Unread > 0
    /\ a_net' = Append(a_net, "chunk")
    /\ UNCHANGED <<a_file, a_pc, a_ret, a_name>>
    /\ AdapterFrame

\* The loop finds the body at its end and True is returned, or reading or writing raises (error
\* or timeout) and the except clause removes the file.
StreamEnd ==
    /\ a_pc = "writing"
    /\ \E ok \in BOOLEAN :
         /\ ok => Unread = 0
         /\ a_file' = (IF ok THEN "present" ELSE CleanupPartial(a_file))
         /\ AdapterReturns(ok)
    /\ UNCHANGED <<a_net, a_name>>
    /\ AdapterFrame

NextAdapter ==
    \/ HfCall
    \/ HfProbe
    \/ HfTransfer
    \/ CvInfo
    \/ UrlCall
    \/ UrlHead
    \/ GetTransfer
    \/ DriveTransfer
    \/ StreamChunk
    \/ StreamEnd

SpecAdapter == InitAdapter /\ [][NextAdapter]_vars

\* ------------------------------------------- inferring the source kind
\* The three places that infer the kind of a structured entry without a
\* 'source' key, each applied to the same entry.
InferEntries ==
    { [source |-> "", repo |-> r, model_id |-> m, version_id |-> v, url |-> u] :
        r \in BOOLEAN, m \in BOOLEAN, v \in BOOLEAN, u \in BOOLEAN }

\* ConfigParser._detect_source: repo, then model_id, then url.
ParserDetectSource(e) ==
    IF e.repo THEN "huggingface"
    ELSE IF e.model_id THEN "civitai"
    ELSE IF e.url THEN "url"
    ELSE "unknown"

InitInfer ==
    /\ OrchIdle("infer")
    /\ hf_token = FALSE
    /\ civitai_token = FALSE
    /\ AdapterIdle
    /\ ValidatorIdle
    /\ SharedIdle
    /\ i_entry \in InferEntries
    /\ i_parser = "none"
    /\ i_pydantic = "none"
    /\ i_orch = "none"

InferFrame ==
    UNCHANGED <<orchVars, tokenVars, fsWrites, adapterVars, validatorVars, sharedVars, i_entry>>

\* _validate_model_config, line 177.
ParserInfers ==
    /\ entryPoint = "infer" /\ i_parser = "none"
    /\ i_parser' = ParserDetectSource(i_entry)
    /\ UNCHANGED <<i_pydantic, i_orch>>
    /\ InferFrame

\* ModelConfigPydantic(**entry): validate_source.
PydanticInfers ==
    /\ entryPoint = "infer" /\ i_pydantic = "none"
    /\ i_pydantic' = PydanticSource(i_entry)
    /\ UNCHANGED <<i_parser, i_orch>>
    /\ InferFrame

\* _create_download_task, line 483.
OrchestratorInfers ==
    /\ entryPoint = "infer" /\ i_orch = "none"
    /\ i_orch' = DetectSource(i_entry)
    /\ UNCHANGED <<i_parser, i_pydantic>>
    /\ InferFrame

NextInfer ==
    \/ ParserInfers
    \/ PydanticInfers
    \/ OrchestratorInfers

SpecInfer == InitInfer /\ [][NextInfer]_vars

\* ------------------------------------------------- TokenValidator calls
\* validate_all_tokens: validate_hf_token and validate_civitai_token run
\* side by side under asyncio.gather.
TokenOf(p) == IF p = "huggingface" THEN hf_token ELSE civitai_token

\* What the GET of a validate call can meet: a status, a transport error,
\* or (hub only, whose 200 branch reads response.json()) a 200 whose body
\* is not JSON.
Responses(p) ==
    {"200", "204", "401", "403", "500", "error"}
        \cup (IF p = "huggingface" THEN {"200_bad_json"} ELSE {})

InitValidator ==
    /\ OrchIdle("validator")
    /\ hf_token \in BOOLEAN
    /\ civitai_token \in BOOLEAN
    /\ AdapterIdle
    /\ InferIdle
    /\ ValidatorIdle
    /\ SharedIdle

ValidatorFrame ==
    UNCHANGED <<tokenVars, fsWrites, adapterVars, inferVars, sharedVars>>

\* "if not self.hf_token: return False" that lets the call go on.
SkipsProbeNever(present) == FALSE

\* Lines 28-30 and 65-67: without a token the call returns False at once.
SkipsProbe(present) == ~present

\* The first statement of validate_<platform>_token.
ValidateCall(p) ==
    /\ entryPoint = "validator" /\ v_pc[p] = "idle"
    /\ IF SkipsProbe(TokenOf(p))
       THEN /\ v_pc' = [v_pc EXCEPT ![p] = "done"]
            /\ v_ret' = [v_ret EXCEPT ![p] = "false"]
       ELSE /\ v_pc' = [v_pc EXCEPT ![p] = "checked"]
            /\ v_ret' = v_ret
    /\ UNCHANGED <<v_net, v_resp>>
    /\ UNCHANGED orchVars
    /\ ValidatorFrame

\* session.get(url, headers=headers) with the Authorization header.
ValidateGet(p) ==
    /\ entryPoint = "validator" /\ v_pc[p] = "checked"
    /\ v_pc' = [v_pc EXCEPT ![p] = "requesting"]
    /\ v_net' = [v_net EXCEPT ![p] = @ + 1]
    /\ UNCHANGED <<v_resp, v_ret>>
    /\ UNCHANGED orchVars
    /\ ValidatorFrame

\* The except clause of a validate call that lets the exception out.
ProbeExceptReraises == "raised"

\* "except Exception as e: ... return False" (lines 54-56, 88-90).
ProbeExcept == "false"

\* What the call returns for a response: True for status 200, False for
\* any other status, the except clause for an exception.
VerdictOf(r) ==
    IF r = "200" THEN "true"
    ELSE IF r \in {"error", "200_bad_json"} THEN ProbeExcept
    ELSE "false"

ValidateRespond(p) ==
    /\ entryPoint = "validator" /\ v_pc[p] = "requesting"
    /\ \E r \in Responses(p) :
         /\ v_resp' = [v_resp EXCEPT ![p] = r]
         /\ v_ret' = [v_ret EXCEPT ![p] = VerdictOf(r)]
    /\ v_pc' = [v_pc EXCEPT ![p] = "done"]
    /\ UNCHANGED v_net
    /\ UNCHANGED orchVars
    /\ ValidatorFrame

\* asyncio.gather returns once both calls have returned.
ValidateAllReturns ==
    /\ entryPoint = "validator" /\ pc = "validator"
    /\ \A p \in Platforms : v_pc[p] = "done" /\ v_ret[p] # "raised"
    /\ pc' = "done"
    /\ UNCHANGED <<entryPoint, dry_run, max_concurrent, manifest, idx,
                   model_configs, download_tasks, tstate, results, semaphore,
                   inflight, adapterCalls, processed, ret, cliVars>>
    /\ UNCHANGED validatorVars
    /\ ValidatorFrame

NextValidator ==
    \/ \E p \in Platforms : ValidateCall(p)
    \/ \E p \in Platforms : ValidateGet(p)
    \/ \E p \in Platforms : ValidateRespond(p)
    \/ ValidateAllReturns

SpecValidator == InitValidator /\ [][NextValidator]_vars

\* ------------------------------------------------------------ vocabulary
\* provision_from_url got past fetch, parse and validation and has finished.
UrlRunFinished ==
    /\ entryPoint = "url" /\ pc = "done"
    /\ ret # Raised(ParseError)

\* Tasks that have started and have not completed.
InFlightTasks == {i \in DOMAIN tstate : tstate[i] \in {"holding", "running"}}

HeldSlots == max_concurrent - semaphore

ValidEntries == {k \in DOMAIN manifest : ConstructOk(manifest[k])}
InvalidEntries == DOMAIN manifest \ ValidEntries

\* The models handed to gather.
Submitted == {download_tasks[i].model : i \in DOMAIN download_tasks}

ResultsNamed(res, k) ==
    {i \in DOMAIN res : res[i].type = "DownloadResult"
                        /\ res[i].model_name = ModelName(k)}

\* ------------------------------------------------------------------ claims

\* C1: in a non-dry-run provision_from_url every valid model entry has its
\* adapter's download executed exactly once, under a limiter slot, and the
\* returned summary holds a DownloadResult for it.
C1_EachValidModelDownloadedOnce ==
    /\ (entryPoint = "url" => Cardinality(inflight) <= HeldSlots)
    /\ (UrlRunFinished /\ ~dry_run) =>
          /\ ret.kind = "summary"
          /\ \A k \in ValidEntries :
                /\ adapterCalls[k] = 1
                /\ Cardinality(ResultsNamed(ret.results, k)) = 1

\* C2: once the manifest is fetched and parsed, provision_from_url returns a
\* ProvisioningSummary and never raises.
C2_AlwaysReturnsSummary ==
    UrlRunFinished => ret.kind = "summary"

\* C3: through either entry point, the number of adapter download calls
\* started and not yet returned never exceeds max_concurrent.
C3_PeakConcurrencyBounded ==
    Cardinality(inflight) <= max_concurrent

\* C4: every task holds one limiter slot from before its adapter call until
\* the call completes: held slots equal in-flight tasks, every adapter call
\* in progress is covered by a slot, and all slots are free at the end.
C4_SlotsMatchInFlight ==
    /\ HeldSlots = Cardinality(InFlightTasks)
    /\ Cardinality(inflight) <= HeldSlots
    /\ (pc = "done" => semaphore = max_concurrent)

\* C5: every returned ProvisioningSummary satisfies
\* total_models = successful_downloads + failed_downloads + skipped_models.
C5_SummaryAccounting ==
    ret.kind = "summary" =>
        ret.total_models = ret.successful_downloads + ret.failed_downloads
                           + ret.skipped_models

\* C5 witness: a run returned a summary that counts at least one model.
C5_Witness ==
    /\ pc = "done" /\ ret.kind = "summary"
    /\ ret.total_models > 0

\* C6: the summary's total_models is the number of manifest entries,
\* construction failures included.
C6_TotalCountsEveryEntry ==
    ret.kind = "summary" => ret.total_models = Len(manifest)

\* C7: every entry whose ModelConfig construction fails adds one to
\* skipped_models or failed_downloads of the returned summary.
C7_ConstructionFailuresRecorded ==
    ret.kind = "summary" =>
        ret.skipped_models + ret.failed_downloads >= Cardinality(InvalidEntries)

\* C8: in a manifest with an entry whose construction fails, that entry is
\* never dispatched to an adapter and every valid entry is dispatched and
\* its download runs to completion.
C8_InvalidSkippedValidRun ==
    (UrlRunFinished /\ ~dry_run /\ InvalidEntries # {}) =>
        /\ \A k \in InvalidEntries : adapterCalls[k] = 0 /\ k \notin Submitted
        /\ \A k \in ValidEntries : k \in Submitted /\ adapterCalls[k] >= 1

\* C10: the results of the summary of a non-dry-run provisioning hold
\* exactly one DownloadResult per submitted model, under that model's name.
C10_OneResultPerSubmittedModel ==
    (UrlRunFinished /\ ~dry_run /\ Submitted # {}) =>
        /\ ret.kind = "summary"
        /\ Len(ret.results) = Cardinality(Submitted)
        /\ \A k \in Submitted : Cardinality(ResultsNamed(ret.results, k)) = 1

\* C9: an exception that escapes a download task is recorded as a
\* DownloadResult with success = false, the model's own name and the
\* exception's message.
C9_EscapedExceptionNamedByModel ==
    (entryPoint = "exec" /\ pc = "done") =>
        \A i \in DOMAIN results :
            results[i].type = "exception" =>
                processed[i] = DownloadResult(ModelName(download_tasks[i].model),
                                              FALSE, results[i].error_message)

\* C13: in dry-run mode no directory or file is created, no adapter is
\* invoked and no token-validation probe is sent.
C13_DryRunNoWritesNoNetwork ==
    (dry_run /\ pc = "done") =>
        /\ fsWrites = {}
        /\ probes = {}
        /\ \A k \in DOMAIN manifest : adapterCalls[k] = 0

\* C14: the dry-run summary has successful_downloads = total_models = the
\* number of entries that construct a valid ModelConfig, and
\* failed_downloads = 0.
C14_DryRunSummaryCountsValid ==
    (entryPoint = "url" /\ dry_run /\ ret.kind = "summary") =>
        /\ ret.total_models = Cardinality(ValidEntries)
        /\ ret.successful_downloads = Cardinality(ValidEntries)
        /\ ret.failed_downloads = 0

\* C14 witness: a dry run returned its summary for a manifest that has both
\* a valid and an invalid entry.
C14_Witness ==
    /\ entryPoint = "url" /\ dry_run /\ pc = "done" /\ ret.kind = "summary"
    /\ ValidEntries # {} /\ InvalidEntries # {}

\* The platform an entry belongs to (declared, else inferred from its fields).
PlatformOf(k) == LegacySource(manifest[k])

\* The pre-flight reported the token of entry k's platform invalid or missing.
DeniedByPreflight(k) ==
    /\ manifest[k].gated
    /\ PlatformOf(k) \in Platforms
    /\ validated[PlatformOf(k)] = "invalid"

\* Entry k yields a download task when tokens are left out of account.
Dispatchable(k) ==
    IF entryPoint = "url" THEN ConstructOk(manifest[k])
    ELSE LegacySource(manifest[k]) \in ModelSource

C17_DeniedLoggedForEveryGatedEntry ==
    \A k \in DOMAIN manifest : DeniedByPreflight(k) => deniedLog[k] = 1

\* The platforms whose validate_*_token was called.
ValidatedPlatforms == {p \in Platforms : validated[p] # "none"}

\* The source kinds that have a gated entry.
GatedKinds == {PlatformOf(k) : k \in FindGatedModels}

\* C18: with no gated entry TokenValidator is not invoked; otherwise, before
\* any dispatch, the platforms validated are exactly the source kinds that
\* have a gated entry.
C18_ValidatesExactlyGatedKinds ==
    /\ (FindGatedModels = {} => ValidatedPlatforms = {})
    /\ (FindGatedModels # {} /\ pc \in {"build", "gather"}) =>
           ValidatedPlatforms = GatedKinds

\* C20: every failed DownloadResult handed back carries a non-empty
\* error_message.
C20_FailedResultsCarryMessage ==
    \A i \in DOMAIN ret.results :
        (ret.results[i].type = "DownloadResult" /\ ~ret.results[i].success)
            => ret.results[i].error_message # NoMsg

\* Task i exists and is in state st.
TaskIs(i, st) == IF i \in DOMAIN tstate THEN tstate[i] = st ELSE FALSE

\* C15: with N >= 1 and adapter calls that eventually return, every
\* submitted task is eventually admitted and completes, and
\* _execute_concurrent_downloads eventually returns with every slot free.
C15_EveryTaskCompletes ==
    <>(/\ pc = "done"
       /\ \A i \in DOMAIN download_tasks : TaskIs(i, "done")
       /\ semaphore = max_concurrent)

\* C15 witness: the gather of more tasks than slots has finished, one of the
\* tasks having run an adapter call.
C15_Witness ==
    /\ entryPoint = "exec" /\ pc = "done"
    /\ Len(download_tasks) > max_concurrent
    /\ \E k \in DOMAIN manifest : adapterCalls[k] = 1

\* The requests of the call so far, as a set.
Requests == {a_net[j] : j \in DOMAIN a_net}

\* C11: when the resolved target file exists as download() is invoked, the
\* call returns success and makes no network request.
C11_PresentFileSkipsNetwork ==
    (a_in.existed /\ a_pc # "idle") =>
        /\ a_net = <<>>
        /\ (a_pc = "done" => a_ret = "true")

\* C12: a transfer that fails after it began writing the target file leaves
\* no partial file: once download() has returned failure for a target that
\* was absent at the call, nothing is at the target path, and a partial
\* file exists only while the transfer is writing.
C12_FailedTransferLeavesNoFile ==
    /\ (a_pc = "done" /\ a_ret = "false" /\ ~a_in.existed) => a_file = "absent"
    /\ (a_file = "partial" => a_pc = "writing")

\* C12 witness: download() returned failure after chunks had been written.
C12_Witness ==
    /\ a_pc = "done" /\ a_ret = "false"
    /\ "chunk" \in Requests

\* C19: for a gated hub entry whose target file is absent the access probe
\* precedes the transfer, and a denied probe ends the call with failure and
\* no transfer.
C19_GatedProbeBeforeTransfer ==
    (a_kind = "huggingface" /\ a_in.gated /\ a_in.filename
         /\ ~a_in.bad_filename /\ ~a_in.existed) =>
        /\ ("transfer" \in Requests => a_net[1] = "access_probe_ok")
        /\ (a_pc = "done" => a_net # <<>>)
        /\ ("access_probe_denied" \in Requests =>
               /\ "transfer" \notin Requests
               /\ a_pc = "done" /\ a_ret = "false")

\* C19 witness: the probe of a gated hub download denied access and the
\* call has returned.
C19_Witness ==
    /\ a_kind = "huggingface" /\ a_in.gated /\ ~a_in.existed
    /\ a_pc = "done"
    /\ "access_probe_denied" \in Requests

\* C21: a run of provision_from_url on a manifest of valid entries only,
\* with every network call succeeding, returns a summary with
\* total = successful = number of entries, failed = 0 and skipped = 0.
C21_AllValidAllSucceed ==
    (/\ entryPoint = "url" /\ ~dry_run /\ pc = "done"
     /\ parsed = "ok" /\ manifest # <<>>
     /\ \A i \in DOMAIN results : results[i].type = "DownloadResult" => results[i].success) =>
        /\ ret.kind = "summary"
        /\ ret.total_models = Len(manifest)
        /\ ret.successful_downloads = Len(manifest)
        /\ ret.failed_downloads = 0
        /\ ret.skipped_models = 0

\* Every download task of the batch ended in success.
AllDispatchedSucceeded ==
    \A i \in DOMAIN download_tasks :
        /\ i \in DOMAIN results
        /\ results[i].type \in {"bool", "DownloadResult"}
        /\ results[i].success

\* C22: the exit code is 0 exactly when the manifest was fetched and parsed
\* and every dispatched download succeeded; it is non-zero otherwise.
C22_ExitZeroIffAllSucceeded ==
    /\ exit_code \in {NotExited, 0, 1}
    /\ (pc = "exited") <=> (exit_code # NotExited)
    /\ (pc = "exited") =>
           ((exit_code = 0) <=> (parsed = "ok" /\ AllDispatchedSucceeded))

\* C22 witness: cli.main exited non-zero after a run in which one download
\* succeeded and another failed.
C22_Witness ==
    /\ pc = "exited" /\ exit_code = 1 /\ parsed = "ok"
    /\ \E i, j \in DOMAIN results :
         /\ results[i].type = "bool" /\ results[i].success
         /\ results[j].type = "bool" /\ ~results[j].success

C24_DownloadNeverRaises ==
    /\ a_ret \in {"none", "true", "false"}
    /\ (a_pc = "done") <=> (a_ret \in {"true", "false"})

\* C24 witness: the body of download() raised on a filename that is not a
\* string and the call returned False.
C24_Witness ==
    /\ a_pc = "done" /\ a_in.bad_filename
    /\ a_ret = "false"

\* C27: the name of the target file is the explicit filename when one is
\* given, else the name the adapter discovers, else the default
\* "<model_name>.safetensors"; it is never empty.
C27_FilenameResolutionOrder ==
    (a_name # "none") =>
        /\ a_name \in {"explicit", "discovered", "default"}
        /\ a_in.filename <=> (a_name = "explicit")
        /\ (a_name = "default") => (~a_in.url_named /\ ~a_in.meta_named)

\* C28: one download sends at most two GET requests for the artifact: the
\* first, and one retry after a confirm page.
C28_AtMostTwoFetches == Fetches <= 2

\* C25: an entry that is a bare URL string is accepted and its URL is
\* downloaded by the direct-URL adapter, through either entry point.
C25_BareUrlProvisioned ==
    (pc = "done" /\ ~dry_run /\ parsed # "failed") =>
        \A k \in DOMAIN manifest :
            manifest[k].bare => (parsed = "ok" /\ adapterCalls[k] = 1)

\* C26: for an entry without a source, the manifest validator, the typed
\* model validation and the orchestrator infer the same kind, the one its
\* fields stand for: repo gives hub, version_id gives marketplace, url gives
\* direct URL.
C26_InferenceAgrees ==
    (i_parser # "none" /\ i_pydantic # "none" /\ i_orch # "none") =>
        /\ i_parser = i_pydantic
        /\ i_pydantic = i_orch
        /\ i_entry.repo => i_orch = "huggingface"
        /\ (~i_entry.repo /\ i_entry.version_id) => i_orch = "civitai"
        /\ (~i_entry.repo /\ ~i_entry.version_id /\ i_entry.url) => i_orch = "url"

\* C29: a validate call whose token is absent returns False and sends no
\* request.
C29_NoTokenNoProbe ==
    \A p \in Platforms :
        (~TokenOf(p)) =>
            /\ v_net[p] = 0
            /\ v_pc[p] \in {"idle", "done"}
            /\ (v_pc[p] = "done" => v_ret[p] = "false")

\* C29 witness: a validate call without a token has returned while the
\* other platform's call, with a token, has sent its GET.
C29_Witness ==
    \E p, q \in Platforms :
        /\ ~TokenOf(p) /\ v_pc[p] = "done"
        /\ TokenOf(q) /\ v_net[q] = 1

\* C30: a validate call whose token is present sends exactly one GET and
\* returns a boolean: False for every status outside 2xx and False when the
\* request itself fails; it never raises.
C30_OneProbeNeverRaises ==
    \A p \in Platforms :
        /\ v_net[p] <= 1
        /\ v_ret[p] \in {"none", "true", "false"}
        /\ (TokenOf(p) /\ v_pc[p] = "done") =>
               /\ v_net[p] = 1
               /\ v_ret[p] \in {"true", "false"}
               /\ (v_resp[p] \in {"401", "403", "500", "error", "200_bad_json"}
                      => v_ret[p] = "false")

\* C30 witness: the GET of a validate call failed and the call returned
\* False.
C30_Witness ==
    \E p \in Platforms :
        /\ TokenOf(p) /\ v_pc[p] = "done"
        /\ v_resp[p] = "error" /\ v_ret[p] = "false"

\* model_configs as a set of manifest entries.
Constructed == {model_configs[j] : j \in DOMAIN model_configs}

\* C31: ModelConfig(...) for an entry of a known source kind succeeds
\* exactly when the field of that kind is present (repo for hub, version_id
\* for marketplace, url for direct URL), so every download task belongs to
\* an entry that has its field.
C31_ConstructionChecksRequiredField ==
    (entryPoint = "url") =>
        /\ \A k \in DOMAIN manifest :
             (k < idx /\ manifest[k].source \in ModelSource) =>
                 ((k \in Constructed) <=>
                      CASE manifest[k].source = "huggingface" -> manifest[k].repo
                        [] manifest[k].source = "civitai" -> manifest[k].version_id
                        [] OTHER -> manifest[k].url)
        /\ \A i \in DOMAIN download_tasks :
             LET e == manifest[download_tasks[i].model] IN
               CASE e.source = "huggingface" -> e.repo
                 [] e.source = "civitai" -> e.version_id
                 [] OTHER -> e.url

\* C31 witness: the build loop has constructed one entry and has refused a
\* marketplace entry that lacks version_id.
C31_Witness ==
    /\ entryPoint = "url" /\ ~dry_run /\ pc = "gather"
    /\ Constructed # {}
    /\ \E k \in DOMAIN manifest :
         /\ manifest[k].source = "civitai" /\ ~manifest[k].version_id
         /\ k \notin Constructed

\* C32: an auth_header of the header map with a ${VAR} placeholder, VAR
\* being set, goes out as the Authorization header of every GET of the
\* direct-URL download, with the placeholder replaced by VAR's value.
C32_AuthHeaderResolved ==
    (a_kind = "url" /\ a_in.auth = "template" /\ a_in.env_set
     /\ "transfer" \in Requests) =>
        a_auth = "resolved"

\* C32 witness: a download with such a header has fetched and written the
\* file.
C32_Witness ==
    /\ a_kind = "url" /\ a_in.auth = "template" /\ a_in.env_set
    /\ a_pc = "done" /\ a_ret = "true" /\ "transfer" \in Requests

\* ------------------------------------------- tasks sharing a target path
\* Direct-URL downloads of one run whose entries resolve to the same target
\* directory and file name, e.g. the categories "clip" and "text_encoder"
\* (_get_category_dir) with the same file name.  asyncio interleaves the
\* tasks at their awaits: the GET and each chunk read.  s_file.by is the
\* task that last opened the file for writing, 0 for a file older than the
\* run.
Tasks == 1..MaxTasks

InitShared ==
    /\ OrchIdle("shared")
    /\ hf_token = FALSE
    /\ civitai_token = FALSE
    /\ AdapterIdle
    /\ InferIdle
    /\ ValidatorIdle
    /\ s_pc = [t \in Tasks |-> "call"]
    /\ s_chunks = [t \in Tasks |-> 0]
    /\ s_ret = [t \in Tasks |-> "none"]
    /\ s_file \in {[exists |-> b, by |-> 0] : b \in BOOLEAN}

SharedFrame ==
    UNCHANGED <<orchVars, tokenVars, fsWrites, adapterVars, inferVars, validatorVars>>

SharedReturns(t, b) ==
    /\ s_pc' = [s_pc EXCEPT ![t] = "done"]
    /\ s_ret' = [s_ret EXCEPT ![t] = b]

\* direct.py lines 190-201: the except clauses delete the file at the
\* target path if one exists, and return False.
SharedExcept(t) ==
    /\ s_file' = [exists |-> FALSE, by |-> 0]
    /\ SharedReturns(t, "false")

\* download, lines 68-75: skip when the target exists, else _download_file.
SharedCall(t) ==
    /\ entryPoint = "shared" /\ s_pc[t] = "call"
    /\ IF s_file.exists
       THEN SharedReturns(t, "true")
       ELSE /\ s_pc' = [s_pc EXCEPT ![t] = "get"]
            /\ s_ret' = s_ret
    /\ UNCHANGED <<s_chunks, s_file>>
    /\ SharedFrame

\* _download_file, lines 137-168: the GET; a status other than 200 returns
\* False, an exception goes to the except clause, a 200 opens the target
\* with mode 'wb', which creates or truncates it.
SharedGet(t) ==
    /\ entryPoint = "shared" /\ s_pc[t] = "get"
    /\ \E r \in {"ok", "status", "raised"} :
         CASE r = "ok" ->
                /\ s_file' = [exists |-> TRUE, by |-> t]
                /\ s_pc' = [s_pc EXCEPT ![t] = "writing"]
                /\ s_ret' = s_ret
           [] r = "status" ->
                /\ s_file' = s_file
                /\ SharedReturns(t, "false")
           [] OTHER -> SharedExcept(t)
    /\ UNCHANGED s_chunks
    /\ SharedFrame

\* Lines 168-186: one chunk read and written, or the read raising.
SharedChunk(t) ==
    /\ entryPoint = "shared" /\ s_pc[t] = "writing"
    /\ s_chunks[t] < MaxChunks
    /\ \/ /\ s_chunks' = [s_chunks EXCEPT ![t] = @ + 1]
          /\ UNCHANGED <<s_pc, s_ret, s_file>>
       \/ /\ SharedExcept(t)
          /\ UNCHANGED s_chunks
    /\ SharedFrame

\* Line 188: the body ends, _download_file returns True.
SharedEnd(t) ==
    /\ entryPoint = "shared" /\ s_pc[t] = "writing"
    /\ SharedReturns(t, "true")
    /\ UNCHANGED <<s_chunks, s_file>>
    /\ SharedFrame

NextShared ==
    \/ \E t \in Tasks : SharedCall(t)
    \/ \E t \in Tasks : SharedGet(t)
    \/ \E t \in Tasks : SharedChunk(t)
    \/ \E t \in Tasks : SharedEnd(t)

SpecShared == InitShared /\ [][NextShared]_vars

\* C33: while a task is writing the file at its target path, or after it has
\* reported the download successful, no step of another task creates,
\* truncates or deletes the file at that path.
C33_TasksIndependent ==
    [][\A t \in Tasks :
          ((s_pc[t] = "writing" \/ s_ret[t] = "true")
           /\ s_pc'[t] = s_pc[t] /\ s_chunks'[t] = s_chunks[t])
             => s_file' = s_file]_vars

\* C34: a direct-URL download that answers True after a transfer of the
\* artifact has written every chunk of the artifact's response body to the
\* target file, cloud-drive URLs included.
C34_SuccessHasWholeBody ==
    (a_kind = "url" /\ a_pc = "done" /\ a_ret = "true"
     /\ a_resp.kind = "artifact") =>
        (a_file = "present" /\ ChunksRead = a_resp.chunks)

\* C39: a confirm page from which no confirm URL can be read makes the
\* download answer False and leaves no file at the target path.
C39_PageWithoutLinkFails ==
    (a_kind = "url" /\ a_pc = "done" /\ a_resp.kind = "page_no_link") =>
        (a_ret = "false" /\ a_file # "present")

\* C35: an adapter answers True without a transfer only when a file with the
\* resolved name, which is not empty, was at the target path; the target
\* directory alone never gives success.
C35_SkipNeedsNamedFile ==
    (a_pc = "done" /\ a_ret = "true" /\ "transfer" \notin Requests) =>
        (a_in.existed /\ a_name \in {"explicit", "discovered", "default"})

\* C36: through either entry point, a run that is no dry run ends with the
\* marketplace adapter's download() having run once for every marketplace
\* entry that carries its version_id, which the successful outcome and the
\* file at the target path need.
C36_MarketplaceEntryDownloaded ==
    (pc = "done" /\ ~dry_run /\ parsed # "failed" /\ parsed # "rejected") =>
        \A k \in DOMAIN manifest :
            (manifest[k].source = "civitai" /\ manifest[k].version_id
             /\ ~manifest[k].gated) =>
                adapterCalls[k] = 1

\* _validate_hf_config, _validate_civitai_config, _validate_url_config: the
\* field the validator of each kind requires; an unknown kind is rejected.
ParserAccepts(kind, e) ==
    CASE kind = "huggingface" -> e.repo
      [] kind = "civitai" -> e.model_id
      [] kind = "url" -> e.url
      [] OTHER -> FALSE

\* _create_download_task and _download_<source>_model: the field each
\* dispatch helper reads with config[...]; an unknown kind gets no task.
DispatchReads(kind, e) ==
    CASE kind = "huggingface" -> e.repo
      [] kind = "civitai" -> e.version_id
      [] kind = "url" -> e.url
      [] OTHER -> FALSE

\* C37: a structured entry is accepted by the manifest validator exactly
\* when the orchestrator finds, for the kind it dispatches the entry as, the
\* field it reads: repo, version_id or url.
C37_AcceptedEntriesDispatch ==
    (i_parser # "none" /\ i_orch # "none") =>
        (ParserAccepts(i_parser, i_entry) <=> DispatchReads(i_orch, i_entry))

\* The entries whose adapter download provision_from_file invokes: those
\* _create_download_task makes a task for and whose adapter call binds.
LegacyCalls ==
    {k \in DOMAIN manifest :
        /\ LegacySource(manifest[k]) \in ModelSource
        /\ AdapterCallBinds(LegacySource(manifest[k]))}

\* The entries whose adapter download has been invoked in this run.
Called == {k \in DOMAIN manifest : adapterCalls[k] > 0}

\* C38: on the same manifest both entry points invoke the same adapter
\* download calls: a finished run of either, no dry run, has invoked the
\* downloads that provision_from_file invokes for the manifest.
C38_EntryPointsAgree ==
    (pc = "done" /\ ~dry_run /\ parsed = "ok") => Called = LegacyCalls

====
